---- MODULE Spec2Model ----
(***************************************************************************)
(* Model of the lab-report core of Araxys-HackWithAi:                      *)
(*   backend/lab_report_analyzer.py  classify_report_statuses,             *)
(*                                   analyze_trends                        *)
(*   backend/app/router.py           the calls the endpoints make to them, *)
(*                                   the agent built at import             *)
(*   rag_pipeline.py                 _MockEmbeddings, RAGPipeline          *)
(*   backend/reasoning_layer.py      LabReportReasoningAgent               *)
(*                                                                         *)
(* Python objects live in a heap of dicts and lists addressed by position, *)
(* so that copying, sharing and in-place assignment are what the code does *)
(* and not an identity.  Numbers are exact decimals in units of 10^-7.     *)
(***************************************************************************)
EXTENDS Integers, Sequences, FiniteSets, TLC

VARIABLES
    report,        \* the report handed to classify_report_statuses (a value)
    heap,          \* the objects of the classifier run: dicts and lists
    classified,    \* outcome of the first classify_report_statuses call
    reclassified,  \* outcome of the call on the already classified report
    older_report,  \* the baseline report handed to analyze_trends
    newer_report,  \* the comparison report handed to analyze_trends
    trend_dict,    \* outcome of analyze_trends
    api_key,       \* os.getenv("GROQ_API_KEY", "") when router.py is imported
    knowledge,     \* the knowledge file: None when it cannot be opened, else
                   \* <<chunks>>, the page contents the splitter makes of it
    build_error,   \* the exception FAISS.from_documents raises, "" for none
    startup_error, \* the exception LabReportReasoningAgent() raised, "" for none
    top_k,         \* RAGPipeline.top_k
    pc,            \* how far the import of router.py has come
    building,      \* the entries FAISS.from_documents has added so far
    vector_store,  \* RAGPipeline._vector_store: None until assigned, else <<index>>
    agent,         \* router._reasoning_agent: "unbound", "None" or "agent"
    builds,        \* number of indexes _build_index has returned
    request,       \* the last call made to the service or the pipeline
    response,      \* what that call did and gave back
    raw_text,      \* the text of the knowledge file pipelines are built from
    chunk_size,    \* the chunk_size the pipelines are constructed with
    chunk_overlap, \* the chunk_overlap the pipelines are constructed with
    pipelines      \* the RAGPipelines constructed so far: top_k and chunks

cvars == <<report, heap, classified, reclassified>>

tvars == <<older_report, newer_report, trend_dict>>

rvars == <<api_key, knowledge, build_error, startup_error, top_k, pc, building, vector_store,
           agent, builds, request, response>>

kvars == <<raw_text, chunk_size, chunk_overlap, pipelines>>

vars == <<report, heap, classified, reclassified, older_report, newer_report, trend_dict,
          api_key, knowledge, build_error, startup_error, top_k, pc, building, vector_store,
          agent, builds, request, response, raw_text, chunk_size, chunk_overlap, pipelines>>

-----------------------------------------------------------------------------
(* Bounds of the classifier inputs *)

MaxParams == 2

RefValues == {1, 2, 3}

NoRef == 0

ReportRef == 1

NotCalled == [tag |-> "none", ref |-> NoRef, key |-> ""]

\* no pipeline is constructed apart from the one of the service
NoChunking ==
    /\ raw_text = << >>
    /\ chunk_size = 0
    /\ chunk_overlap = 0
    /\ pipelines = << >>

\* the service is not part of a run of the analyzer functions alone
NoService ==
    /\ api_key = ""
    /\ knowledge = << >>
    /\ build_error = ""
    /\ startup_error = ""
    /\ top_k = 0
    /\ pc = "off"
    /\ building = << >>
    /\ vector_store = << >>
    /\ agent = "unbound"
    /\ builds = 0
    /\ request = [op |-> "none"]
    /\ response = [tag |-> "none"]

-----------------------------------------------------------------------------
(* Input reports: a parameter is a dict; a key may be absent *)

BaseParams ==
    [name : {<<72>>}, value : RefValues, unit : {"g/dL"},
     reference_low : RefValues, reference_high : RefValues]

StatedParams ==
    [name : {<<72>>}, value : RefValues, unit : {"g/dL"},
     reference_low : RefValues, reference_high : RefValues, status : {"High"}]

LackingParams ==
    { [name |-> <<72>>, unit |-> "g/dL", reference_low |-> 1, reference_high |-> 3],
      [name |-> <<72>>, value |-> 2, unit |-> "g/dL", reference_high |-> 3],
      [name |-> <<72>>, value |-> 2, unit |-> "g/dL", reference_low |-> 1] }

ClassifierParams == BaseParams \cup StatedParams \cup LackingParams

ParamLists == UNION { [1..n -> ClassifierParams] : n \in 0..MaxParams }

ClassifierReports ==
    { [patient_name |-> "Priya", report_date |-> "2025-02-27"] }
    \cup { [patient_name |-> "Priya", report_date |-> "2025-02-27", parameters |-> ps] :
             ps \in ParamLists }

-----------------------------------------------------------------------------
(* The heap *)

\* dict.get(key, default) on a dict object
Get(d, k, default) == IF k \in DOMAIN d THEN d[k] ELSE default

\* d[k] = v on a dict object
SetItem(d, k, v) == [x \in (DOMAIN d) \cup {k} |-> IF x = k THEN v ELSE d[x]]

\* the heap that holds a report value as fresh objects: the report dict at
\* ReportRef, its parameters list next, then one dict per parameter
HeapOf(r) ==
    IF "parameters" \in DOMAIN r
    THEN <<[r EXCEPT !.parameters = 2], [i \in 1..Len(r.parameters) |-> i + 2]>>
         \o r.parameters
    ELSE <<r>>

\* the report value an address denotes
Deref(h, ref) ==
    LET d == h[ref] IN
    IF "parameters" \in DOMAIN d
    THEN [d EXCEPT !.parameters = [i \in 1..Len(h[d.parameters]) |-> h[h[d.parameters][i]]]]
    ELSE d

\* the mutable objects reachable from a report address
Reach(h, ref) ==
    LET d == h[ref] IN
    IF "parameters" \in DOMAIN d
    THEN {ref, d.parameters} \cup { h[d.parameters][i] : i \in 1..Len(h[d.parameters]) }
    ELSE {ref}

\* a copy.copy(report) in place of the deep copy: a new dict whose values are
\* the same objects
ShallowCopy(h, ref) == [heap |-> Append(h, h[ref]), ref |-> Len(h) + 1]

\* copy.deepcopy(report): new dict, new list, new parameter dicts
DeepCopy(h, ref) ==
    LET d == h[ref]
        n == Len(h)
    IN  IF "parameters" \in DOMAIN d
        THEN LET items == h[d.parameters]
                 m     == Len(items)
             IN  [heap |-> h \o <<[d EXCEPT !.parameters = n + 2],
                                  [i \in 1..m |-> n + 2 + i]>>
                             \o [i \in 1..m |-> h[items[i]]],
                  ref  |-> n + 1]
        ELSE [heap |-> Append(h, d), ref |-> n + 1]

-----------------------------------------------------------------------------
(* classify_report_statuses *)

StatusGE(value, reference_low, reference_high) ==
    IF value >= reference_high THEN "High"
    ELSE IF value <= reference_low THEN "Low"
    ELSE "Normal"

StatusLowFirst(value, reference_low, reference_high) ==
    IF value < reference_low THEN "Low"
    ELSE IF value > reference_high THEN "High"
    ELSE "Normal"

\* lines 41-46: the ordered comparison
Status(value, reference_low, reference_high) ==
    IF value > reference_high THEN "High"
    ELSE IF value < reference_low THEN "Low"
    ELSE "Normal"

\* the first of the three subscripted keys a parameter lacks, "" if none
MissingKey(param) ==
    IF "value" \notin DOMAIN param THEN "value"
    ELSE IF "reference_low" \notin DOMAIN param THEN "reference_low"
    ELSE IF "reference_high" \notin DOMAIN param THEN "reference_high"
    ELSE ""

KeepStatedStatus(param) ==
    IF "status" \in DOMAIN param THEN param
    ELSE SetItem(param, "status",
                 Status(param.value, param.reference_low, param.reference_high))

\* lines 37-46 on one parameter dict that has the three keys
ClassifyParam(param) ==
    SetItem(param, "status",
            Status(param.value, param.reference_low, param.reference_high))

RECURSIVE SkippingLoop(_, _, _)
SkippingLoop(h, items, i) ==
    IF i > Len(items) THEN [heap |-> h, key |-> ""]
    ELSE IF MissingKey(h[items[i]]) # "" THEN SkippingLoop(h, items, i + 1)
    ELSE SkippingLoop([h EXCEPT ![items[i]] = ClassifyParam(h[items[i]])], items, i + 1)

\* lines 36-46: the loop over the copy's parameters, in place; a missing key
\* raises KeyError out of the loop and leaves the earlier assignments behind
RECURSIVE ClassifyLoop(_, _, _)
ClassifyLoop(h, items, i) ==
    IF i > Len(items) THEN [heap |-> h, key |-> ""]
    ELSE IF MissingKey(h[items[i]]) # "" THEN [heap |-> h, key |-> MissingKey(h[items[i]])]
    ELSE ClassifyLoop([h EXCEPT ![items[i]] = ClassifyParam(h[items[i]])], items, i + 1)

\* lines 33-48: the call; the outcome is the returned reference or the raise
classify_report_statuses(h, ref) ==
    LET c     == DeepCopy(h, ref)
        d     == c.heap[c.ref]
        items == IF "parameters" \in DOMAIN d THEN c.heap[d.parameters] ELSE <<>>
        l     == ClassifyLoop(c.heap, items, 1)
    IN  IF l.key = ""
        THEN [heap |-> l.heap, out |-> [tag |-> "ok", ref |-> c.ref, key |-> ""]]
        ELSE [heap |-> l.heap, out |-> [tag |-> "KeyError", ref |-> NoRef, key |-> l.key]]

-----------------------------------------------------------------------------
(* The calls *)

\* no analyze_trends call is under way
NoTrends ==
    /\ older_report = << >>
    /\ newer_report = << >>
    /\ trend_dict = [tag |-> "none"]

InitClassify ==
    /\ report \in ClassifierReports
    /\ heap = HeapOf(report)
    /\ classified = NotCalled
    /\ reclassified = NotCalled
    /\ NoTrends
    /\ NoService
    /\ NoChunking

\* router.py line 128, lab_report_analyzer.py line 180
Classify ==
    /\ classified.tag = "none"
    /\ LET r == classify_report_statuses(heap, ReportRef) IN
         /\ heap' = r.heap
         /\ classified' = r.out
    /\ UNCHANGED <<report, reclassified>>
    /\ UNCHANGED tvars
    /\ UNCHANGED rvars
    /\ UNCHANGED kvars

\* router.py lines 191-192: the trend endpoint classifies what the pipeline
\* already classified
Reclassify ==
    /\ classified.tag = "ok"
    /\ reclassified.tag = "none"
    /\ LET r == classify_report_statuses(heap, classified.ref) IN
         /\ heap' = r.heap
         /\ reclassified' = r.out
    /\ UNCHANGED <<report, classified>>
    /\ UNCHANGED tvars
    /\ UNCHANGED rvars
    /\ UNCHANGED kvars

NextClassify == Classify \/ Reclassify

SpecClassify == InitClassify /\ [][NextClassify]_vars

-----------------------------------------------------------------------------
(* Properties of classify_report_statuses *)

\* the parameters of the report an outcome returned
OutParams(out) ==
    IF out.tag = "ok" /\ "parameters" \in DOMAIN heap[out.ref]
    THEN Deref(heap, out.ref).parameters
    ELSE <<>>

InParams == IF "parameters" \in DOMAIN report THEN report.parameters ELSE <<>>

Required == {"value", "reference_low", "reference_high"}

Outcomes == {classified, reclassified}

\* C1: every parameter's status follows the ordered policy (High when value >
\* reference_high, otherwise Low when value < reference_low, otherwise Normal)
\* on the value and range of the input parameter, and with reference_low <=
\* reference_high a value on either boundary is Normal.
C1_OrderedPolicy ==
    \A out \in Outcomes :
        out.tag = "ok" =>
            /\ Len(OutParams(out)) = Len(InParams)
            /\ \A i \in 1..Len(OutParams(out)) :
                 LET p == OutParams(out)[i]
                     q == InParams[i]
                 IN  /\ p.value = q.value
                     /\ p.reference_low = q.reference_low
                     /\ p.reference_high = q.reference_high
                     /\ (p.status = "High") <=> (q.value > q.reference_high)
                     /\ (p.status = "Low") <=>
                            (~(q.value > q.reference_high) /\ q.value < q.reference_low)
                     /\ (p.status = "Normal") <=>
                            (~(q.value > q.reference_high) /\ ~(q.value < q.reference_low))
                     /\ (q.reference_low <= q.reference_high
                         /\ (q.value = q.reference_low \/ q.value = q.reference_high))
                            => p.status = "Normal"

\* a classified report holding a lower-boundary, an upper-boundary parameter
C1_Witness ==
    /\ classified.tag = "ok"
    /\ Len(OutParams(classified)) = 2
    /\ LET p == OutParams(classified)[1]
           q == OutParams(classified)[2]
       IN  /\ p.reference_low < p.reference_high
           /\ p.value = p.reference_low
           /\ p.status = "Normal"
           /\ q.reference_low < q.reference_high
           /\ q.value = q.reference_high
           /\ q.status = "Normal"

\* C2 as stated: with no assumption on how the two references are ordered, a
\* parameter's status is Low if and only if value < reference_low.
C2_LowIffBelowLow ==
    \A i \in 1..Len(OutParams(classified)) :
        LET p == OutParams(classified)[i] IN
        (p.status = "Low") <=> (p.value < p.reference_low)

\* C2 amended: with no assumption on how the two references are ordered, a
\* parameter's status is Low if and only if value < reference_low and value is
\* not greater than reference_high (the High test comes first).
C2_LowIffBelowLowNotAboveHigh ==
    \A out \in Outcomes :
        \A i \in 1..Len(OutParams(out)) :
            LET p == OutParams(out)[i] IN
            (p.status = "Low") <=>
                (p.value < p.reference_low /\ ~(p.value > p.reference_high))

\* a classified parameter of an inverted range, below its reference_low and
\* above its reference_high
C2_Witness ==
    \E i \in 1..Len(OutParams(classified)) :
        LET p == OutParams(classified)[i] IN
        /\ p.value < p.reference_low
        /\ p.value > p.reference_high
        /\ p.status = "High"

\* C3: a call never changes an object that existed before it (so the input
\* report, its list and its parameters are what they were, whether the call
\* returns or raises), and the returned report shares no dict or list with
\* the report it was called on.
C3_InputNotMutated ==
    /\ [](classified.tag # "none" => Deref(heap, ReportRef) = report)
    /\ [][ /\ Len(heap') >= Len(heap)
           /\ \A a \in 1..Len(heap) : heap'[a] = heap[a]
           /\ (classified'.tag = "ok" /\ classified.tag = "none")
                => Reach(heap', classified'.ref) \cap Reach(heap', ReportRef) = {}
           /\ (reclassified'.tag = "ok" /\ reclassified.tag = "none")
                => Reach(heap', reclassified'.ref) \cap Reach(heap', classified.ref) = {}
         ]_vars

\* a returned report whose statuses differ from the input's
C3_Witness ==
    /\ classified.tag = "ok"
    /\ Len(InParams) = 2
    /\ "status" \notin DOMAIN InParams[1]
    /\ "status" \in DOMAIN InParams[2]
    /\ InParams[2].status # OutParams(classified)[2].status

\* C4: the status depends on (value, reference_low, reference_high) alone:
\* parameters equal in the three get the same status whatever status they
\* came with, and classifying the classified report returns an equal report.
C4_StatusPureIdempotent ==
    /\ \A i, j \in 1..Len(OutParams(classified)) :
         LET p == OutParams(classified)[i]
             q == OutParams(classified)[j]
         IN  (p.value = q.value /\ p.reference_low = q.reference_low
              /\ p.reference_high = q.reference_high) => p.status = q.status
    /\ classified.tag = "ok" => reclassified.tag \in {"none", "ok"}
    /\ reclassified.tag = "ok" =>
         Deref(heap, reclassified.ref) = Deref(heap, classified.ref)

\* the report was classified twice, and a status it came with was overwritten
C4_Witness ==
    /\ reclassified.tag = "ok"
    /\ \E i \in 1..Len(InParams) :
         /\ "status" \in DOMAIN InParams[i]
         /\ InParams[i].status = "High"
         /\ OutParams(classified)[i].status = "Low"
         /\ OutParams(reclassified)[i].status = "Low"

\* C5: when a parameter lacks value, reference_low or reference_high the call
\* raises KeyError for a key that is lacking and returns no report, also when
\* earlier parameters were complete.
C5_MissingFieldRaises ==
    (classified.tag # "none"
     /\ \E i \in 1..Len(InParams) : ~(Required \subseteq DOMAIN InParams[i]))
        => /\ classified.tag = "KeyError"
           /\ classified.ref = NoRef
           /\ classified.key \in Required
           /\ \E i \in 1..Len(InParams) : classified.key \notin DOMAIN InParams[i]
           /\ reclassified.tag = "none"

\* the call raised on the second parameter after assigning the first one's
\* status in the copy
C5_Witness ==
    /\ classified.tag = "KeyError"
    /\ Len(InParams) = 2
    /\ Required \subseteq DOMAIN InParams[1]
    /\ "status" \notin DOMAIN InParams[1]
    /\ \E a \in (Len(HeapOf(report)) + 3)..Len(heap) :
         /\ "status" \in DOMAIN heap[a]
         /\ heap[a].status = "Low"

-----------------------------------------------------------------------------
(* analyze_trends *)

(* A name is the sequence of its code points, ordered as Python orders str.  *)
(* A number is an integer count of 10^-7; percentage_change is a count of    *)
(* 10^-2, held in a sequence that is empty for None.                         *)

None == << >>

Abs(x) == IF x < 0 THEN -x ELSE x

Sign(x) == IF x < 0 THEN -1 ELSE 1

\* str.__lt__
LexLess(a, b) ==
    \E k \in 1..(Len(a) + 1) :
        /\ \A j \in 1..(k - 1) : j <= Len(b) /\ a[j] = b[j]
        /\ k <= Len(b)
        /\ (k > Len(a) \/ a[k] < b[k])

RECURSIVE SortedDescending(_)
SortedDescending(S) ==
    IF S = {} THEN << >>
    ELSE LET m == CHOOSE x \in S : \A y \in S \ {x} : LexLess(y, x)
         IN  <<m>> \o SortedDescending(S \ {m})

\* sorted(names) of a set of str
RECURSIVE Sorted(_)
Sorted(S) ==
    IF S = {} THEN << >>
    ELSE LET m == CHOOSE x \in S : \A y \in S \ {x} : LexLess(x, y)
         IN  <<m>> \o Sorted(S \ {m})

\* the integer nearest to n / d for n >= 0, d > 0, a tie going to the even one
RoundHalfEven(n, d) ==
    LET q == n \div d
        r == n % d
    IN  IF 2 * r > d THEN q + 1
        ELSE IF 2 * r < d THEN q
        ELSE IF q % 2 = 0 THEN q ELSE q + 1

\* n * 10^k / d for 0 <= n, d > 0, rounded to the nearest integer, by long
\* division: rem is n mod d carried down k digits
RECURSIVE ScaledQuotient(_, _, _, _)
ScaledQuotient(quot, rem, d, k) ==
    IF k = 0 THEN quot + RoundHalfEven(rem, d)
    ELSE ScaledQuotient(quot * 10 + (rem * 10) \div d, (rem * 10) % d, d, k - 1)

TruncateAbs(x) == Sign(x) * (Abs(x) \div 10) * 10

\* round(x, 6) of a count of 10^-7
RoundAbs(x) == Sign(x) * RoundHalfEven(Abs(x), 10) * 10

\* round((absolute_change / older_value) * 100, 2), as a count of 10^-2;
\* the division raises ZeroDivisionError on a zero divisor
RoundedPercent(absolute_change, older_value) ==
    IF older_value = 0
    THEN [raised |-> TRUE, value |-> None]
    ELSE [raised |-> FALSE,
          value  |-> << Sign(absolute_change) * Sign(older_value)
                        * ScaledQuotient(Abs(absolute_change) \div Abs(older_value),
                                         Abs(absolute_change) % Abs(older_value),
                                         Abs(older_value), 4) >>]

UnguardedPercentage(absolute_change, older_value) ==
    RoundedPercent(absolute_change, older_value)

\* lines 117-120
PercentageChange(absolute_change, older_value) ==
    IF older_value # 0
    THEN RoundedPercent(absolute_change, older_value)
    ELSE [raised |-> FALSE, value |-> None]

\* line 115
AbsoluteChange(older_value, newer_value) == RoundAbs(newer_value - older_value)

DirectionGE(absolute_change) ==
    IF absolute_change >= 0 THEN "Increased"
    ELSE IF absolute_change < 0 THEN "Decreased"
    ELSE "Unchanged"

\* lines 122-127
Direction(absolute_change) ==
    IF absolute_change > 0 THEN "Increased"
    ELSE IF absolute_change < 0 THEN "Decreased"
    ELSE "Unchanged"

\* lines 97-98: {p["name"]: p for p in report.get("parameters", [])}; a later
\* parameter of the same name replaces the earlier one
_build_param_map(r) ==
    LET ps == Get(r, "parameters", << >>) IN
    [n \in { ps[i].name : i \in 1..Len(ps) } |->
        ps[CHOOSE i \in 1..Len(ps) :
              /\ ps[i].name = n
              /\ \A j \in 1..Len(ps) : ps[j].name = n => j <= i]]

\* line 103
CommonNames(older_map, newer_map) == (DOMAIN older_map) \cap (DOMAIN newer_map)

KeysSwapped(a_map, b_map) == Sorted((DOMAIN b_map) \ (DOMAIN a_map))

KeysOfFirst(a_map, b_map) == Sorted(DOMAIN a_map)

\* lines 104-105: sorted(a_map.keys() - b_map.keys())
SortedKeyDifference(a_map, b_map) == Sorted((DOMAIN a_map) \ (DOMAIN b_map))

UnitOlderFirst(old_param, new_param) ==
    Get(old_param, "unit", Get(new_param, "unit", ""))

\* line 131: new_param.get("unit", old_param.get("unit", ""))
Unit(old_param, new_param) ==
    Get(new_param, "unit", Get(old_param, "unit", ""))

\* lines 109-139: the entry of one common name
TrendEntry(name, old_param, new_param) ==
    LET older_value     == old_param.value
        newer_value     == new_param.value
        absolute_change == AbsoluteChange(older_value, newer_value)
        pct             == PercentageChange(absolute_change, older_value)
    IN  [raised |-> pct.raised,
         entry  |-> [name              |-> name,
                     unit              |-> Unit(old_param, new_param),
                     older_value       |-> older_value,
                     newer_value       |-> newer_value,
                     absolute_change   |-> absolute_change,
                     percentage_change |-> pct.value,
                     direction         |-> Direction(absolute_change),
                     older_status      |-> Get(old_param, "status", ""),
                     newer_status      |-> Get(new_param, "status", "")]]

\* lines 96-148
analyze_trends(older, newer) ==
    LET older_map     == _build_param_map(older)
        newer_map     == _build_param_map(newer)
        common_names  == CommonNames(older_map, newer_map)
        only_in_older == SortedKeyDifference(older_map, newer_map)
        only_in_newer == SortedKeyDifference(newer_map, older_map)
        names         == Sorted(common_names)
        made          == [i \in 1..Len(names) |->
                             TrendEntry(names[i], older_map[names[i]], newer_map[names[i]])]
    IN  IF \E i \in 1..Len(names) : made[i].raised
        THEN [tag |-> "ZeroDivisionError"]
        ELSE [tag               |-> "ok",
              patient_name      |-> Get(newer, "patient_name", ""),
              older_report_date |-> Get(older, "report_date", ""),
              newer_report_date |-> Get(newer, "report_date", ""),
              trends            |-> [i \in 1..Len(names) |-> made[i].entry],
              only_in_older     |-> only_in_older,
              only_in_newer     |-> only_in_newer]

-----------------------------------------------------------------------------
(* Inputs of analyze_trends *)

Hb == <<72, 98>>

HDL == <<72, 68, 76>>

ALT == <<65, 76, 84>>

TrendNames == {Hb, HDL, ALT}

\* 0, -0.00007, 0.0001, 0.0001004, 0.000101, 0.04, 0.040001, 11.2, 12.8
TrendValues == {0, -700, 1000, 1004, 1010, 400000, 400010, 112000000, 128000000}

\* reports that vary in which names they list, in which order, how often
ShapeParams == [name : TrendNames, value : {0, 112000000}, unit : {"g/dL"}, status : {"Low"}]

ShapeReports ==
    { << >> }
    \cup { [patient_name |-> "Priya", report_date |-> "2026-01-15", parameters |-> ps] :
             ps \in UNION { [1..n -> ShapeParams] : n \in 0..MaxParams } }

\* reports of one parameter that vary in its value and in the keys it has
ValueParams ==
    [name : {Hb}, value : TrendValues, unit : {"g/dL", "mg/dL"}, status : {"Low"}]
    \cup [name : {Hb}, value : TrendValues]

ValueReports ==
    { [patient_name |-> "Priya", report_date |-> "2026-02-20", parameters |-> <<p>>] :
        p \in ValueParams }

TrendInputs == (ShapeReports \X ShapeReports) \cup (ValueReports \X ValueReports)

InitTrends ==
    /\ report = << >>
    /\ heap = << >>
    /\ classified = NotCalled
    /\ reclassified = NotCalled
    /\ \E pair \in TrendInputs :
         /\ older_report = pair[1]
         /\ newer_report = pair[2]
    /\ trend_dict = [tag |-> "none"]
    /\ NoService
    /\ NoChunking

\* router.py line 193, lab_report_analyzer.py line 190
AnalyzeTrends ==
    /\ trend_dict.tag = "none"
    /\ trend_dict' = analyze_trends(older_report, newer_report)
    /\ UNCHANGED <<older_report, newer_report>>
    /\ UNCHANGED cvars
    /\ UNCHANGED rvars
    /\ UNCHANGED kvars

NextTrends == AnalyzeTrends

SpecTrends == InitTrends /\ [][NextTrends]_vars

-----------------------------------------------------------------------------
(* Properties of analyze_trends *)

Range(seq) == { seq[i] : i \in 1..Len(seq) }

Count(seq, x) == Cardinality({ i \in 1..Len(seq) : seq[i] = x })

NamesOf(r) ==
    LET ps == Get(r, "parameters", << >>) IN { ps[i].name : i \in 1..Len(ps) }

Returned == trend_dict.tag = "ok"

Trends == IF Returned THEN trend_dict.trends ELSE << >>

TrendNamesOut == [i \in 1..Len(Trends) |-> Trends[i].name]

\* C6: a name is in only_in_older exactly when some parameter of the older
\* report has it and none of the newer report has it, and symmetrically for
\* only_in_newer; a name of either list has no entry in trends.
C6_OnlyInIffOneSided ==
    Returned =>
        \A n \in TrendNames :
            /\ (n \in Range(trend_dict.only_in_older))
                   <=> (n \in NamesOf(older_report) /\ n \notin NamesOf(newer_report))
            /\ (n \in Range(trend_dict.only_in_newer))
                   <=> (n \in NamesOf(newer_report) /\ n \notin NamesOf(older_report))
            /\ (n \in Range(trend_dict.only_in_older) \cup Range(trend_dict.only_in_newer))
                   => n \notin Range(TrendNamesOut)

\* a name only the newer report has, beside a name both have and a name only
\* the older report has
C6_Witness ==
    /\ Returned
    /\ trend_dict.only_in_newer = <<Hb>>
    /\ trend_dict.only_in_older = <<ALT>>
    /\ TrendNamesOut = <<HDL>>

\* C7: every name of either report, also one a report lists twice, occurs
\* exactly once in the names of trends, only_in_older and only_in_newer taken
\* together, and no other name occurs there.
C7_StrictPartition ==
    Returned =>
        LET all == TrendNamesOut \o trend_dict.only_in_older \o trend_dict.only_in_newer
        IN  /\ Range(all) \subseteq NamesOf(older_report) \cup NamesOf(newer_report)
            /\ \A n \in NamesOf(older_report) \cup NamesOf(newer_report) :
                 Count(all, n) = 1

\* the older report lists a name twice that the newer report has too; the one
\* entry made for it carries the later of the two values
C7_Witness ==
    /\ Returned
    /\ LET o == Get(older_report, "parameters", << >>)
           n == Get(newer_report, "parameters", << >>)
       IN  /\ Len(o) = 2
           /\ o[1].name = Hb
           /\ o[2].name = Hb
           /\ o[1].value # o[2].value
           /\ Len(n) = 2
           /\ n[1].name = ALT
           /\ n[2].name = Hb
    /\ Len(Trends) = 1
    /\ Trends[1].older_value = Get(older_report, "parameters", << >>)[2].value

\* C8: analyze_trends never raises, and an entry's percentage_change is None
\* exactly when its older_value is 0.
C8_NoneIffOlderZero ==
    /\ trend_dict.tag \in {"none", "ok"}
    /\ \A i \in 1..Len(Trends) :
         (Trends[i].percentage_change = None) <=> (Trends[i].older_value = 0)

\* older value 0 and newer value 12.8
C8_Witness ==
    /\ Returned
    /\ Len(Trends) = 1
    /\ Trends[1].older_value = 0
    /\ Trends[1].newer_value = 128000000
    /\ Trends[1].percentage_change = None

\* C9: for an entry with older_value # 0, absolute_change is the multiple of
\* 10^-6 nearest to newer_value - older_value, and percentage_change is the
\* multiple of 10^-2 nearest to absolute_change / older_value * 100 (the
\* products of this second test fit the integers for absolute changes up to
\* 0.01; above that the entry of 11.2 and 12.8 is tested by its numbers 1.6
\* and 14.29).
C9_RoundedChanges ==
    \A i \in 1..Len(Trends) :
        LET e == Trends[i] IN
        e.older_value # 0 =>
            /\ e.absolute_change % 10 = 0
            /\ 2 * Abs(e.absolute_change - (e.newer_value - e.older_value)) <= 10
            /\ Len(e.percentage_change) = 1
            /\ Abs(e.absolute_change) <= 100000 =>
                 2 * Abs(e.absolute_change * 10000 - e.percentage_change[1] * e.older_value)
                     <= Abs(e.older_value)
            /\ (e.older_value = 112000000 /\ e.newer_value = 128000000) =>
                 (e.absolute_change = 16000000 /\ e.percentage_change = <<1429>>)

\* the entry of 11.2 and 12.8
C9_Witness ==
    /\ Returned
    /\ Len(Trends) = 1
    /\ Trends[1].older_value = 112000000
    /\ Trends[1].newer_value = 128000000
    /\ Trends[1].absolute_change = 16000000
    /\ Trends[1].percentage_change = <<1429>>

\* C10: direction is Increased exactly when absolute_change > 0, Decreased
\* exactly when absolute_change < 0, Unchanged exactly when it is 0.
C10_DirectionIffSign ==
    \A i \in 1..Len(Trends) :
        LET e == Trends[i] IN
        /\ (e.direction = "Increased") <=> (e.absolute_change > 0)
        /\ (e.direction = "Decreased") <=> (e.absolute_change < 0)
        /\ (e.direction = "Unchanged") <=> (e.absolute_change = 0)

\* the newer value is above the older one by less than the rounding keeps
C10_Witness ==
    /\ Returned
    /\ Len(Trends) = 1
    /\ Trends[1].newer_value > Trends[1].older_value
    /\ Trends[1].absolute_change = 0
    /\ Trends[1].direction = "Unchanged"

Reversed(seq) == [i \in 1..Len(seq) |-> seq[Len(seq) + 1 - i]]

Ascending(seq) == \A i, j \in 1..Len(seq) : i < j => LexLess(seq[i], seq[j])

DistinctNames(r) ==
    LET ps == Get(r, "parameters", << >>) IN
    \A i, j \in 1..Len(ps) : ps[i].name = ps[j].name => i = j

\* the last parameter of a report that has the name
LastNamed(r, n) ==
    LET ps == Get(r, "parameters", << >>)
        i  == CHOOSE k \in 1..Len(ps) :
                  ps[k].name = n /\ \A j \in (k + 1)..Len(ps) : ps[j].name # n
    IN  ps[i]

\* C11: the names of trends, only_in_older and only_in_newer are each in
\* strictly ascending str order, and listing the parameters of reports with
\* distinct names in another order gives the same result.
C11_SortedByName ==
    Returned =>
        /\ Ascending(TrendNamesOut)
        /\ Ascending(trend_dict.only_in_older)
        /\ Ascending(trend_dict.only_in_newer)
        /\ ("parameters" \in DOMAIN older_report /\ "parameters" \in DOMAIN newer_report
            /\ DistinctNames(older_report) /\ DistinctNames(newer_report))
              => analyze_trends(
                    [older_report EXCEPT !.parameters = Reversed(older_report.parameters)],
                    [newer_report EXCEPT !.parameters = Reversed(newer_report.parameters)])
                 = trend_dict

\* two common names listed in descending order by the older report and in
\* ascending order by the newer one
C11_Witness ==
    /\ Returned
    /\ TrendNamesOut = <<ALT, Hb>>
    /\ Len(Get(older_report, "parameters", << >>)) = 2
    /\ older_report.parameters[1].name = Hb
    /\ newer_report.parameters[1].name = ALT

\* C12: an entry's unit is the newer parameter's unit when that parameter has
\* one, and the older parameter's unit when the newer one has none.
C12_UnitNewerThenOlder ==
    \A i \in 1..Len(Trends) :
        LET e == Trends[i]
            o == LastNamed(older_report, e.name)
            n == LastNamed(newer_report, e.name)
        IN  /\ "unit" \in DOMAIN n => e.unit = n.unit
            /\ ("unit" \notin DOMAIN n /\ "unit" \in DOMAIN o) => e.unit = o.unit

\* the newer parameter has no unit and the older one has
C12_Witness ==
    /\ Returned
    /\ Len(Trends) = 1
    /\ Trends[1].name = Hb
    /\ "unit" \notin DOMAIN LastNamed(newer_report, Hb)
    /\ "unit" \in DOMAIN LastNamed(older_report, Hb)
    /\ Trends[1].unit = "mg/dL"

-----------------------------------------------------------------------------
(* rag_pipeline.py: the offline embedding.  A text is the tuple of its code *)
(* points; a component of a vector is the fraction <<count, total>>, the    *)
(* exact value of the quotient v / total.                                   *)

Dim == 128

Space == 32

\* str.lower() on the code points of ASCII and Latin-1
Lower(text) ==
    [i \in 1..Len(text) |->
        IF text[i] \in 65..90 \/ (text[i] \in 192..222 /\ text[i] # 215)
        THEN text[i] + 32
        ELSE text[i]]

\* sum(vec) over the slots lo..hi, by halves
RECURSIVE SumVec(_, _, _)
SumVec(vec, lo, hi) ==
    IF lo > hi THEN 0
    ELSE IF lo = hi THEN vec[lo]
    ELSE LET mid == (lo + hi) \div 2
         IN  SumVec(vec, lo, mid) + SumVec(vec, mid + 1, hi)

\* lines 48-50: for ch in text_lower: idx = ord(ch) % 128; vec[idx] += 1.0
RECURSIVE CountLoop(_, _, _)
CountLoop(vec, text_lower, i) ==
    IF i > Len(text_lower) THEN vec
    ELSE LET idx == text_lower[i] % Dim
         IN  CountLoop([vec EXCEPT ![idx] = @ + 1], text_lower, i + 1)

EmbedOriginalCase(text) ==
    LET vec   == CountLoop([i \in 0..(Dim - 1) |-> 0], text, 1)
        total == IF SumVec(vec, 0, Dim - 1) = 0 THEN 1 ELSE SumVec(vec, 0, Dim - 1)
    IN  [i \in 0..(Dim - 1) |-> <<vec[i], total>>]

\* lines 44-53: total = sum(vec) or 1.0; return [v / total for v in vec]
_embed(text) ==
    LET text_lower == Lower(text)
        vec   == CountLoop([i \in 0..(Dim - 1) |-> 0], text_lower, 1)
        total == IF SumVec(vec, 0, Dim - 1) = 0 THEN 1 ELSE SumVec(vec, 0, Dim - 1)
    IN  [i \in 0..(Dim - 1) |-> <<vec[i], total>>]

\* lines 38-39
embed_documents(texts) == [i \in 1..Len(texts) |-> _embed(texts[i])]

\* lines 41-42
embed_query(text) == _embed(text)

-----------------------------------------------------------------------------
(* The vector index the pipeline builds and searches: a list of entries    *)
(* [page_content, vector] in the order the chunks were added; a search     *)
(* ranks them by squared L2 distance to the embedded query.                *)

\* a fraction <<numerator, denominator>> less than another (denominators > 0)
FracLess(x, y) == x[1] * y[2] < y[1] * x[2]

\* the slots where one of two vectors is not zero
Support(a, b) == {i \in 0..(Dim - 1) : a[i][1] # 0 \/ b[i][1] # 0}

\* the sum over the slots of the squared differences, in units of the product
\* of the two denominators squared
RECURSIVE SquaredDiffs(_, _, _)
SquaredDiffs(a, b, slots) ==
    IF slots = {} THEN 0
    ELSE LET i == CHOOSE s \in slots : TRUE
             d == a[i][1] * b[i][2] - b[i][1] * a[i][2]
         IN  d * d + SquaredDiffs(a, b, slots \ {i})

\* squared L2 distance of two vectors whose components share a denominator;
\* a slot where both are zero adds nothing
Distance(a, b) ==
    <<SquaredDiffs(a, b, Support(a, b)), (a[0][2] * b[0][2]) * (a[0][2] * b[0][2])>>

Min(a, b) == IF a < b THEN a ELSE b

SearchInsertionOrder(index, query, k) ==
    [r \in 1..Min(k, Len(index)) |-> index[r].page_content]

\* similarity_search(query, k): the page contents of the k nearest entries,
\* nearest first, entries at the same distance in the order they were added
similarity_search(index, query, k) ==
    LET q         == embed_query(query)
        dist      == [i \in 1..Len(index) |-> Distance(index[i].vector, q)]
        Before(i, j) == \/ FracLess(dist[i], dist[j])
                        \/ (~FracLess(dist[j], dist[i]) /\ i < j)
        rank      == [i \in 1..Len(index) |->
                         Cardinality({j \in 1..Len(index) : Before(j, i)}) + 1]
    IN  [r \in 1..Min(k, Len(index)) |->
            index[CHOOSE i \in 1..Len(index) : rank[i] = r].page_content]

\* FAISS.from_documents(chunks, embeddings), one entry at a time
AddEntry(index, chunk) ==
    Append(index, [page_content |-> chunk, vector |-> embed_documents(<<chunk>>)[1]])

-----------------------------------------------------------------------------
(* rag_pipeline.py and reasoning_layer.py: retrieval.  A call that can     *)
(* raise takes the number of the similarity_search call that does (0 for   *)
(* none) and gives back what it returned or raised and the searches it     *)
(* made.                                                                    *)

Whitespace == {9, 10, 11, 12, 13, 32}

\* str.strip()
RECURSIVE Strip(_)
Strip(text) ==
    IF text = << >> THEN text
    ELSE IF Head(text) \in Whitespace THEN Strip(Tail(text))
    ELSE IF text[Len(text)] \in Whitespace THEN Strip(SubSeq(text, 1, Len(text) - 1))
    ELSE text

\* sep.join(pieces)
RECURSIVE Join(_, _)
Join(sep, pieces) ==
    IF pieces = << >> THEN << >>
    ELSE IF Len(pieces) = 1 THEN pieces[1]
    ELSE pieces[1] \o sep \o Join(sep, Tail(pieces))

ParagraphBreak == <<10, 10>>

\* the text of a status string
StatusText(status) ==
    CASE status = "High"   -> <<72, 105, 103, 104>>
      [] status = "Low"    -> <<76, 111, 119>>
      [] status = "Normal" -> <<78, 111, 114, 109, 97, 108>>

\* rag_pipeline.py line 171: "All parameters are within normal range."
AllNormalText ==
    <<65, 108, 108, 32, 112, 97, 114, 97, 109, 101, 116, 101, 114, 115, 32,
      97, 114, 101, 32, 119, 105, 116, 104, 105, 110, 32, 110, 111, 114,
      109, 97, 108, 32, 114, 97, 110, 103, 101, 46>>

\* reasoning_layer.py line 274:
\* "All lab parameters are within their reference ranges."
AllInRangeText ==
    <<65, 108, 108, 32, 108, 97, 98, 32, 112, 97, 114, 97, 109, 101, 116,
      101, 114, 115, 32, 97, 114, 101, 32, 119, 105, 116, 104, 105, 110,
      32, 116, 104, 101, 105, 114, 32, 114, 101, 102, 101, 114, 101, 110,
      99, 101, 32, 114, 97, 110, 103, 101, 115, 46>>

\* rag_pipeline.py line 178: k=2
AbnormalK == 2

SearchError == "EmbeddingError"

AnyStated(parameters) ==
    SelectSeq(parameters, LAMBDA p : Get(p, "status", "") \in {"High", "Low", "Normal"})

\* [p for p in parameters if p.get("status") in ("High", "Low")]
Abnormal(parameters) ==
    SelectSeq(parameters, LAMBDA p : Get(p, "status", "") \in {"High", "Low"})

\* rag_pipeline.py lines 179-183: the documents of one query, stripped, those
\* not seen before appended
RECURSIVE AddUnseen(_, _, _)
AddUnseen(contexts, docs, j) ==
    IF j > Len(docs) THEN contexts
    ELSE LET content == Strip(docs[j])
         IN  IF content \in {contexts[i] : i \in 1..Len(contexts)}
             THEN AddUnseen(contexts, docs, j + 1)
             ELSE AddUnseen(Append(contexts, content), docs, j + 1)

\* rag_pipeline.py lines 176-183: one query per abnormal parameter
RECURSIVE AbnormalLoop(_, _, _, _, _, _)
AbnormalLoop(index, abnormal, i, fail_at, contexts, searches) ==
    IF i > Len(abnormal)
    THEN [tag |-> "ok", error |-> "", contexts |-> contexts, searches |-> searches]
    ELSE LET param == abnormal[i]
             query == StatusText(param.status) \o <<Space>> \o param.name
         IN  IF fail_at = Len(searches) + 1
             THEN [tag |-> "raised", error |-> SearchError, contexts |-> contexts,
                   searches |-> Append(searches,
                       [query |-> query, k |-> AbnormalK, size |-> Len(index),
                        raised |-> TRUE, docs |-> << >>])]
             ELSE LET docs == similarity_search(index, query, AbnormalK)
                  IN  AbnormalLoop(index, abnormal, i + 1, fail_at,
                          AddUnseen(contexts, docs, 1),
                          Append(searches,
                              [query |-> query, k |-> AbnormalK, size |-> Len(index),
                               raised |-> FALSE, docs |-> docs]))

\* rag_pipeline.py lines 153-185
retrieve_for_abnormal_params(index, parameters, fail_at) ==
    LET abnormal == Abnormal(parameters) IN
    IF abnormal = << >>
    THEN [tag |-> "ok", error |-> "", context |-> AllNormalText,
          contexts |-> << >>, searches |-> << >>]
    ELSE LET r == AbnormalLoop(index, abnormal, 1, fail_at, << >>, << >>)
         IN  [tag |-> r.tag, error |-> r.error,
              context |-> IF r.tag = "ok" THEN Join(ParagraphBreak, r.contexts) ELSE << >>,
              contexts |-> r.contexts, searches |-> r.searches]

\* rag_pipeline.py lines 135-151
retrieve(index, k, query, fail_at) ==
    IF fail_at = 1
    THEN [tag |-> "raised", error |-> SearchError, context |-> << >>, contexts |-> << >>,
          searches |-> <<[query |-> query, k |-> k, size |-> Len(index),
                          raised |-> TRUE, docs |-> << >>]>>]
    ELSE LET docs == similarity_search(index, query, k)
         IN  [tag |-> "ok", error |-> "", context |-> Join(ParagraphBreak, docs),
              contexts |-> docs,
              searches |-> <<[query |-> query, k |-> k, size |-> Len(index),
                              raised |-> FALSE, docs |-> docs]>>]

\* " ".join(p["name"] for p in abnormal)
NamesQuery(abnormal) == Join(<<Space>>, [i \in 1..Len(abnormal) |-> abnormal[i].name])

RetrieveContextOrSentinel(index, k, parameters, fail_at) ==
    LET abnormal == Abnormal(parameters)
        query    == NamesQuery(abnormal)
    IN  IF abnormal = << >>
        THEN [tag |-> "ok", error |-> "", context |-> AllInRangeText,
              contexts |-> << >>, searches |-> << >>]
        ELSE IF fail_at = 1
        THEN [tag |-> "ok", error |-> "", context |-> AllInRangeText,
              contexts |-> << >>,
              searches |-> <<[query |-> query, k |-> k, size |-> Len(index),
                              raised |-> TRUE, docs |-> << >>]>>]
        ELSE LET docs == similarity_search(index, query, k)
             IN  [tag |-> "ok", error |-> "", context |-> Join(ParagraphBreak, docs),
                  contexts |-> docs,
                  searches |-> <<[query |-> query, k |-> k, size |-> Len(index),
                                  raised |-> FALSE, docs |-> docs]>>]

\* reasoning_layer.py lines 264-288: one query naming every abnormal parameter,
\* the documents joined as they come
_retrieve_context(index, k, parameters, fail_at) ==
    LET abnormal == Abnormal(parameters)
        query    == NamesQuery(abnormal)
    IN  IF abnormal = << >>
        THEN [tag |-> "ok", error |-> "", context |-> AllInRangeText,
              contexts |-> << >>, searches |-> << >>]
        ELSE IF fail_at = 1
        THEN [tag |-> "raised", error |-> SearchError, context |-> << >>,
              contexts |-> << >>,
              searches |-> <<[query |-> query, k |-> k, size |-> Len(index),
                              raised |-> TRUE, docs |-> << >>]>>]
        ELSE LET docs == similarity_search(index, query, k)
             IN  [tag |-> "ok", error |-> "", context |-> Join(ParagraphBreak, docs),
                  contexts |-> docs,
                  searches |-> <<[query |-> query, k |-> k, size |-> Len(index),
                                  raised |-> FALSE, docs |-> docs]>>]

-----------------------------------------------------------------------------
(* reasoning_layer.py: the language model's answer and analyze.  An answer *)
(* is what json.loads makes of it: a dict, another JSON value, or no JSON. *)

MaxQuestions == 4

KeptQuestions == 3

LLMError == "LLMError"

Questions(n) == [i \in 1..n |-> "question"]

LLMOutputs ==
    { [kind |-> "object", keys |-> TRUE, doctor_questions |-> Questions(n)] :
          n \in 0..MaxQuestions }
    \cup { [kind |-> "object", keys |-> FALSE, doctor_questions |-> << >>],
           [kind |-> "array",  keys |-> FALSE, doctor_questions |-> << >>],
           [kind |-> "text",   keys |-> FALSE, doctor_questions |-> << >>] }

LLMRaises == [kind |-> "raise", keys |-> FALSE, doctor_questions |-> << >>]

LLMUnused == [kind |-> "unused", keys |-> FALSE, doctor_questions |-> << >>]

\* lines 170-183: the dict used when the answer is no JSON
FallbackParsed ==
    [summary |-> "We were unable to format a structured response at this time.",
     preventive_guidance |-> "Maintain a balanced diet, stay physically active, and keep hydrated.",
     doctor_questions |-> <<"Which of my results require immediate attention?",
                            "What lifestyle changes do you recommend based on my results?",
                            "When should I repeat these tests?">>]

\* lines 352-363: the answer to a report without parameters
NoParametersResult ==
    [summary |-> "No lab parameters were found in this report.",
     preventive_guidance |-> "Please consult your doctor with a complete lab report.",
     doctor_questions |-> <<"What lab tests should I have done based on my symptoms?",
                            "What reference ranges apply to someone my age and gender?",
                            "When should I schedule a follow-up appointment?">>]

NoResult == [summary |-> "", preventive_guidance |-> "", doctor_questions |-> << >>]

\* lines 152-191
_parse_llm_output(raw) ==
    IF raw.kind = "array"
    THEN [tag |-> "raised", error |-> "AttributeError", result |-> NoResult]
    ELSE LET parsed == IF raw.kind = "text" THEN FallbackParsed
                       ELSE IF raw.keys
                       THEN [summary |-> "summary", preventive_guidance |-> "guidance",
                             doctor_questions |-> raw.doctor_questions]
                       ELSE [note |-> "other"]
             questions == Get(parsed, "doctor_questions", << >>)
         IN  [tag |-> "ok", error |-> "",
              result |-> [summary |-> Get(parsed, "summary", ""),
                          preventive_guidance |-> Get(parsed, "preventive_guidance", ""),
                          doctor_questions |->
                              SubSeq(questions, 1, Min(KeptQuestions, Len(questions)))]]

NoContext == [tag |-> "ok", error |-> "", context |-> << >>, contexts |-> << >>,
              searches |-> << >>]

\* lines 131-145, 290-314: the prompt names the value of every abnormal
\* parameter with p['value'], which raises KeyError on a parameter without one
_build_prompt(parameters) ==
    LET abnormal == Abnormal(parameters) IN
    IF \E i \in 1..Len(abnormal) : "value" \notin DOMAIN abnormal[i]
    THEN "KeyError"
    ELSE ""

AnalyzeSkipsEmptyCheck(index, k, lab_report, fail_at) ==
    LET parameters == Get(lab_report, "parameters", << >>)
        rag        == _retrieve_context(index, k, parameters, fail_at)
    IN  IF rag.tag = "raised"
        THEN [tag |-> "raised", error |-> rag.error, result |-> NoResult,
              rag |-> rag, retrieved |-> TRUE, llm_calls |-> 0]
        ELSE [tag |-> "pending", error |-> "", result |-> NoResult,
              rag |-> rag, retrieved |-> TRUE, llm_calls |-> 1]

\* lines 320-372: analyze as far as self._llm.invoke(messages): what it has
\* returned or raised by then ("pending": the call of the model is under
\* way), the context it retrieved, the searches it made and the number of
\* calls of the language model
analyze(index, k, lab_report, fail_at) ==
    LET parameters == Get(lab_report, "parameters", << >>) IN
    IF parameters = << >>
    THEN [tag |-> "ok", error |-> "", result |-> NoParametersResult,
          rag |-> NoContext, retrieved |-> FALSE, llm_calls |-> 0]
    ELSE LET rag == _retrieve_context(index, k, parameters, fail_at) IN
         IF rag.tag = "raised"
         THEN [tag |-> "raised", error |-> rag.error, result |-> NoResult,
               rag |-> rag, retrieved |-> TRUE, llm_calls |-> 0]
         ELSE IF _build_prompt(parameters) # ""
         THEN [tag |-> "raised", error |-> _build_prompt(parameters), result |-> NoResult,
               rag |-> rag, retrieved |-> TRUE, llm_calls |-> 0]
         ELSE [tag |-> "pending", error |-> "", result |-> NoResult,
               rag |-> rag, retrieved |-> TRUE, llm_calls |-> 1]

AnalyzeReturnRetries(call, llm) ==
    IF llm.kind = "raise"
    THEN [call EXCEPT !.tag = "raised", !.error = LLMError]
    ELSE LET out == _parse_llm_output(llm)
         IN  [call EXCEPT !.tag = out.tag, !.error = out.error, !.result = out.result,
                          !.llm_calls = IF llm.kind = "text" THEN @ + 1 ELSE @]

\* lines 372-379: the model raises, or analyze returns what
\* _parse_llm_output makes of its answer
analyze_return(call, llm) ==
    IF llm.kind = "raise"
    THEN [call EXCEPT !.tag = "raised", !.error = LLMError]
    ELSE LET out == _parse_llm_output(llm)
         IN  [call EXCEPT !.tag = out.tag, !.error = out.error, !.result = out.result]

-----------------------------------------------------------------------------
(* router.py lines 52-58: the import of the router builds the agent, the   *)
(* agent its pipeline, the pipeline its index; the service answers once    *)
(* the import is over.                                                      *)

MaxChunks == 2

DefaultTopK == 5

TopKs == {1, DefaultTopK}

ChunkTexts == {<<72, 98>>, <<104, 100, 108>>}

ChunkLists == UNION { [1..n -> ChunkTexts] : n \in 0..MaxChunks }

KnowledgeFiles == {None} \cup { <<chunks>> : chunks \in ChunkLists }

ApiKeys == {"", " ", "gsk_key"}

BuildErrors == {"", "RuntimeError"}

NoRequest ==
    [op |-> "none", listed |-> TRUE, parameters |-> << >>, query |-> << >>,
     fail_at |-> 0, llm |-> LLMUnused, uploads |-> << >>]

NoResponse ==
    [tag |-> "none", error |-> "", status_code |-> 0, result |-> NoResult,
     rag |-> NoContext, retrieved |-> FALSE, llm_calls |-> 0,
     stages |-> << >>, received |-> None, dicts |-> << >>, body |-> {}, trend |-> None]

KeyUnstripped(key) == key

\* os.getenv("GROQ_API_KEY", "").strip()
KeyStripped(key) == IF key \in {"", " "} THEN "" ELSE key

LoadOrDefault(file) ==
    [error |-> "", chunks |-> IF file = None THEN <<<<72, 98>>>> ELSE file[1]]

\* rag_pipeline.py lines 113-115, 120-126: open() raises on a file it cannot
\* open; the chunks are what the splitter makes of the text read
_load_text(file) ==
    IF file = None
    THEN [error |-> "FileNotFoundError", chunks |-> << >>]
    ELSE [error |-> "", chunks |-> file[1]]

\* FAISS.from_documents raises on an empty list of documents, and whatever
\* the library fails with
FromDocumentsError(chunks, error) == IF chunks = << >> THEN "IndexError" ELSE error

\* FAISS.from_documents returns once every chunk is in the index
BuildDone(index, chunks) == Len(index) = Len(chunks)

\* router.py line 56: except RuntimeError
RouterCatches(error) == error = "RuntimeError"

ServerStartedEarly(position) == position # "crashed"

\* main.py lines 19 and 59, router.py lines 52-58: the endpoints exist once
\* router.py has been imported to its end
ServerStarted(position) == position = "serving"

InitService ==
    /\ report = << >>
    /\ heap = << >>
    /\ classified = NotCalled
    /\ reclassified = NotCalled
    /\ NoTrends
    /\ NoChunking
    /\ api_key \in ApiKeys
    /\ knowledge \in KnowledgeFiles
    /\ build_error \in BuildErrors
    /\ startup_error = ""
    /\ top_k \in TopKs
    /\ KeyStripped(api_key) = "" =>
          /\ knowledge = <<<<Hb>>>>
          /\ build_error = ""
          /\ top_k = DefaultTopK
    /\ pc = "import"
    /\ building = << >>
    /\ vector_store = None
    /\ agent = "unbound"
    /\ builds = 0
    /\ request = NoRequest
    /\ response = NoResponse

\* LabReportReasoningAgent() raises: router.py lines 56-58 bind None on a
\* RuntimeError; any other exception ends the import and the process
ConstructorRaises(error) ==
    /\ startup_error' = error
    /\ building' = << >>
    /\ IF RouterCatches(error)
       THEN agent' = "None" /\ pc' = "serving"
       ELSE agent' = agent /\ pc' = "crashed"
    /\ UNCHANGED <<api_key, knowledge, build_error, top_k, vector_store, builds,
                   request, response>>
    /\ UNCHANGED <<cvars, tvars, kvars>>

\* reasoning_layer.py lines 235-242
ReadKey ==
    /\ pc = "import"
    /\ IF KeyStripped(api_key) = ""
       THEN ConstructorRaises("RuntimeError")
       ELSE /\ pc' = "load"
            /\ UNCHANGED <<api_key, knowledge, build_error, startup_error, top_k,
                           building, vector_store, agent, builds, request, response>>
            /\ UNCHANGED <<cvars, tvars, kvars>>

\* rag_pipeline.py lines 119-127
LoadText ==
    /\ pc = "load"
    /\ LET loaded == _load_text(knowledge) IN
       IF loaded.error # ""
       THEN ConstructorRaises(loaded.error)
       ELSE /\ pc' = "build"
            /\ UNCHANGED <<api_key, knowledge, build_error, startup_error, top_k,
                           building, vector_store, agent, builds, request, response>>
            /\ UNCHANGED <<cvars, tvars, kvars>>

\* rag_pipeline.py line 129: one more chunk embedded and added
AddChunk ==
    /\ pc = "build"
    /\ LET chunks == _load_text(knowledge).chunks IN
         /\ Len(building) < Len(chunks)
         /\ building' = AddEntry(building, chunks[Len(building) + 1])
    /\ UNCHANGED <<api_key, knowledge, build_error, startup_error, top_k, pc,
                   vector_store, agent, builds, request, response>>
    /\ UNCHANGED <<cvars, tvars, kvars>>

\* rag_pipeline.py line 129: FAISS.from_documents raises
BuildFails ==
    /\ pc = "build"
    /\ LET failure == FromDocumentsError(_load_text(knowledge).chunks, build_error) IN
         /\ failure # ""
         /\ ConstructorRaises(failure)

\* rag_pipeline.py lines 103, 130: self._vector_store = the index built
AssignStore ==
    /\ pc = "build"
    /\ LET chunks == _load_text(knowledge).chunks IN
         /\ FromDocumentsError(chunks, build_error) = ""
         /\ BuildDone(building, chunks)
    /\ vector_store' = <<building>>
    /\ builds' = builds + 1
    /\ pc' = "llm"
    /\ UNCHANGED <<api_key, knowledge, build_error, startup_error, top_k, building,
                   agent, request, response>>
    /\ UNCHANGED <<cvars, tvars, kvars>>

\* reasoning_layer.py lines 252-258, router.py line 54
BindAgent ==
    /\ pc = "llm"
    /\ agent' = "agent"
    /\ pc' = "serving"
    /\ UNCHANGED <<api_key, knowledge, build_error, startup_error, top_k, building,
                   vector_store, builds, request, response>>
    /\ UNCHANGED <<cvars, tvars, kvars>>

-----------------------------------------------------------------------------
(* The calls: an upload through the router, and analyze, retrieve and      *)
(* retrieve_for_abnormal_params on the agent and its pipeline               *)

MaxQueryParams == 2

QueryParams ==
    { [name |-> Hb,  value |-> 98, status |-> "High"],
      [name |-> HDL, status |-> "Low"],
      [name |-> Hb,  value |-> 98, status |-> "Normal"] }

QueryParamLists == UNION { [1..n -> QueryParams] : n \in 0..MaxQueryParams }

RetrieveQueries == {<< >>, <<201, 72>>, Hb}

\* reasoning_layer.py line 320: def analyze(self, report)
AnalyzeParameters == {"report"}

\* a call of analyze with keyword arguments raises TypeError before the body
\* runs when analyze has no parameter of that name
CallAnalyze(index, k, lab_report, keywords, fail_at) ==
    IF keywords \subseteq AnalyzeParameters
    THEN analyze(index, k, lab_report, fail_at)
    ELSE [tag |-> "raised", error |-> "TypeError", result |-> NoResult,
          rag |-> NoContext, retrieved |-> FALSE, llm_calls |-> 0]

IndexLearns(index, searches) ==
    IF searches = << >> THEN index ELSE AddEntry(index, searches[1].query)

\* rag_pipeline.py lines 135-185, reasoning_layer.py lines 264-379: no
\* statement assigns _vector_store and a search adds nothing to the index
IndexAfter(index, searches) == index

LabReport(parameters) ==
    [patient_name |-> "Priya", report_date |-> "2026-01-15", parameters |-> parameters]

\* a report without the key "parameters"
ReportUnlisted == [patient_name |-> "Priya", report_date |-> "2026-01-15"]

\* the answer to a direct call of the agent
Returned_(call) ==
    [NoResponse EXCEPT !.tag = call.tag, !.error = call.error, !.result = call.result,
                       !.rag = call.rag, !.retrieved = call.retrieved,
                       !.llm_calls = call.llm_calls]

\* the answer to a call of the pipeline
Retrieved(rag) ==
    [NoResponse EXCEPT !.tag = rag.tag, !.error = rag.error, !.rag = rag,
                       !.retrieved = TRUE]

\* router.py line 50
MAX_FILE_SIZE_BYTES == 10485760

FileSizes == {0, MAX_FILE_SIZE_BYTES, MAX_FILE_SIZE_BYTES + 1}

\* what an extractor does with a file: returns ("") or raises
ExtractorOutcomes == {"", "ValueError", "RuntimeError"}

\* parameters as the extraction model gives them, its statuses right or wrong
UploadParams ==
    { [name |-> Hb, value |-> 98, unit |-> "g/dL", reference_low |-> 120,
       reference_high |-> 155, status |-> "Low"],
      [name |-> Hb, value |-> 98, unit |-> "g/dL", reference_low |-> 120,
       reference_high |-> 155, status |-> "Normal"],
      [name |-> HDL, value |-> 50, unit |-> "mg/dL", reference_low |-> 40,
       reference_high |-> 60, status |-> "High"] }

UploadParamLists == UNION { [1..n -> UploadParams] : n \in 0..MaxQueryParams }

\* an uploaded file: whether _validate_upload accepts it, the number of its
\* bytes, what text extraction and parameter extraction do with it, and the
\* parameters extracted (listed only for a file that gets that far)
Uploads ==
    { u \in [accepted : BOOLEAN, size : FileSizes, text : ExtractorOutcomes,
             extraction : ExtractorOutcomes, parameters : UploadParamLists] :
        u.parameters # << >> =>
            /\ u.accepted
            /\ u.size = MAX_FILE_SIZE_BYTES
            /\ u.text = ""
            /\ u.extraction = "" }

\* llm_service.py lines 62-70, 157-163: the extraction loads its model with
\* the same GROQ_API_KEY and raises RuntimeError without one
ExtractionOutcome(upload, key) ==
    IF KeyStripped(key) = "" THEN "RuntimeError" ELSE upload.extraction

ReportDictUnclassified(lab_report) == lab_report

\* router.py line 128: classify_report_statuses(lab_report.model_dump()), the
\* statuses of the fresh dict set anew (lab_report_analyzer.py lines 34-48)
ReportDict(lab_report) ==
    [lab_report EXCEPT !.parameters =
        [i \in 1..Len(lab_report.parameters) |->
            LET param == lab_report.parameters[i]
            IN  [param EXCEPT !.status =
                    Status(param.value, param.reference_low, param.reference_high)]]]

\* the stages of _run_pipeline in the order of its statements
StageNames ==
    <<"validate", "read", "checks", "extract_text", "extract_parameters",
      "classify", "reasoning">>

\* the log of the first n stages run on a file
Ran(file, n) == [i \in 1..n |-> <<file, StageNames[i]>>]

NoCall ==
    [tag |-> "none", error |-> "", result |-> NoResult, rag |-> NoContext,
     retrieved |-> FALSE, llm_calls |-> 0]

\* _run_pipeline raises HTTPException(status_code) after n stages
Raises(file, n, status_code) ==
    [tag |-> "raised", error |-> "HTTPException", status_code |-> status_code,
     stages |-> Ran(file, n), received |-> None, call |-> NoCall]

\* router.py lines 93-139: _run_pipeline on one file as far as the call of
\* the language model: the stages it ran, the report it handed to the agent,
\* and what it raised or what analyze has done so far
_run_pipeline(file, upload, key, reasoning_agent, store, k) ==
    IF ~upload.accepted THEN Raises(file, 1, 415)
    ELSE IF upload.size = 0 THEN Raises(file, 3, 400)
    ELSE IF upload.size > MAX_FILE_SIZE_BYTES THEN Raises(file, 3, 413)
    ELSE IF upload.text = "ValueError" THEN Raises(file, 4, 422)
    ELSE IF upload.text = "RuntimeError" THEN Raises(file, 4, 500)
    ELSE IF ExtractionOutcome(upload, key) = "ValueError" THEN Raises(file, 5, 502)
    ELSE IF ExtractionOutcome(upload, key) = "RuntimeError" THEN Raises(file, 5, 503)
    ELSE LET report_dict == ReportDict(LabReport(upload.parameters)) IN
         IF reasoning_agent = "None" THEN Raises(file, 6, 503)
         ELSE LET call == CallAnalyze(store[1], k, report_dict, {"report", "language"}, 0)
              IN  [tag |-> call.tag,
                   error |-> IF call.tag = "raised" THEN "HTTPException" ELSE "",
                   status_code |-> IF call.tag = "raised" THEN 502 ELSE 0,
                   stages |-> Ran(file, 7), received |-> <<report_dict>>, call |-> call]

\* {**report_dict, **insights}
Merged(report_dict, insights) ==
    [key \in DOMAIN report_dict \cup DOMAIN insights |->
        IF key \in DOMAIN insights THEN insights[key] ELSE report_dict[key]]

\* schemas.py lines 44-72: the fields AnalysisResponse requires
AnalysisResponseFields ==
    {"patient_name", "report_date", "parameters", "summary", "intellectual_audio",
     "preventive_guidance", "doctor_questions"}

FileProcessedNewerFirst(n) == IF n = 1 THEN "newer" ELSE "older"

\* router.py lines 188-189: the file of the n-th _run_pipeline of analyze-trends
FileProcessed(n) == IF n = 1 THEN "older" ELSE "newer"

\* the endpoint while or after _run_pipeline works on a file: the stages run
\* before are kept, the dicts of the files done before too
Progress(before, run) ==
    [before EXCEPT !.tag = run.tag, !.error = run.error,
                   !.status_code = run.status_code, !.result = run.call.result,
                   !.rag = run.call.rag, !.retrieved = run.call.retrieved,
                   !.llm_calls = run.call.llm_calls,
                   !.stages = @ \o run.stages, !.received = run.received]

\* router.py lines 163-165: upload_report returns AnalysisResponse(**result)
UploadReportReturns(done) ==
    IF AnalysisResponseFields \subseteq DOMAIN done.dicts[1]
    THEN [done EXCEPT !.tag = "ok", !.status_code = 200, !.body = DOMAIN done.dicts[1]]
    ELSE [done EXCEPT !.tag = "raised", !.error = "ValidationError", !.status_code = 500]

\* router.py lines 191-207: both files are done; the dicts are classified
\* again, the older one is the baseline of analyze_trends, the graph is drawn
AnalyzeTrendsReturns(done) ==
    LET older == ReportDict(done.dicts[IF FileProcessed(1) = "older" THEN 1 ELSE 2])
        newer == ReportDict(done.dicts[IF FileProcessed(1) = "older" THEN 2 ELSE 1])
    IN  [done EXCEPT !.tag = "ok", !.status_code = 200,
                     !.stages = @ \o <<<<"both", "trends">>, <<"both", "graph">>>>,
                     !.trend = <<analyze_trends(older, newer)>>]

\* router.py lines 136-141: analyze has returned or raised in _run_pipeline
PipelineReturns(waiting, llm) ==
    LET after == analyze_return(waiting, llm) IN
    IF after.tag = "raised"
    THEN [after EXCEPT !.error = "HTTPException", !.status_code = 502]
    ELSE [after EXCEPT !.dicts = Append(@, Merged(waiting.received[1], after.result))]

\* router.py lines 163-165, 188-207: the endpoint goes on after the language
\* model has answered the analyze call of _run_pipeline
EndpointGoesOn(op, waiting, llm, next_upload, key, reasoning_agent, store, k) ==
    LET done == PipelineReturns(waiting, llm) IN
    IF done.tag = "raised" THEN done
    ELSE IF op = "upload-report" THEN UploadReportReturns(done)
    ELSE IF Len(done.dicts) = 1
    THEN Progress(done, _run_pipeline(FileProcessed(2), next_upload, key,
                                      reasoning_agent, store, k))
    ELSE AnalyzeTrendsReturns(done)

\* no file is read next
NoUpload ==
    [accepted |-> FALSE, size |-> 0, text |-> "", extraction |-> "",
     parameters |-> << >>]

\* router.py lines 159-165: POST /api/v1/upload-report, as far as the call of
\* the language model
RunPipeline ==
    /\ ServerStarted(pc)
    /\ response.tag = "none"
    /\ \E upload \in Uploads :
         /\ request' = [NoRequest EXCEPT !.op = "upload-report",
                                         !.parameters = upload.parameters,
                                         !.uploads = <<upload>>]
         /\ response' = Progress(NoResponse,
                _run_pipeline("file", upload, api_key, agent, vector_store, top_k))
    /\ vector_store' = IF vector_store = None THEN None
                       ELSE <<IndexAfter(vector_store[1], response'.rag.searches)>>
    /\ UNCHANGED <<api_key, knowledge, build_error, startup_error, top_k, pc,
                   building, agent, builds>>
    /\ UNCHANGED <<cvars, tvars, kvars>>

\* router.py lines 183-189: POST /api/v1/analyze-trends, as far as the call of
\* the language model for the first file
AnalyzeTrendsEndpoint ==
    /\ ServerStarted(pc)
    /\ response.tag = "none"
    /\ \E upload \in Uploads :
         /\ request' = [NoRequest EXCEPT !.op = "analyze-trends",
                                         !.parameters = upload.parameters,
                                         !.uploads = <<upload>>]
         /\ response' = Progress(NoResponse,
                _run_pipeline(FileProcessed(1), upload, api_key, agent,
                              vector_store, top_k))
    /\ vector_store' = IF vector_store = None THEN None
                       ELSE <<IndexAfter(vector_store[1], response'.rag.searches)>>
    /\ UNCHANGED <<api_key, knowledge, build_error, startup_error, top_k, pc,
                   building, agent, builds>>
    /\ UNCHANGED <<cvars, tvars, kvars>>

\* reasoning_layer.py lines 320-372: agent.analyze(report), as far as the call
\* of the language model
Analyze ==
    /\ ServerStarted(pc)
    /\ response.tag = "none"
    /\ agent = "agent"
    /\ \E parameters \in QueryParamLists, listed \in BOOLEAN :
       \E fail_at \in 0..(IF Abnormal(parameters) = << >> THEN 0 ELSE 1) :
         /\ ~listed => parameters = << >>
         /\ request' = [NoRequest EXCEPT !.op = "analyze", !.listed = listed,
                                         !.parameters = parameters,
                                         !.fail_at = fail_at]
         /\ response' = Returned_(
                CallAnalyze(vector_store[1], top_k,
                            IF listed THEN LabReport(parameters) ELSE ReportUnlisted,
                            {"report"}, fail_at))
         /\ vector_store' = <<IndexAfter(vector_store[1], response'.rag.searches)>>
    /\ UNCHANGED <<api_key, knowledge, build_error, startup_error, top_k, pc,
                   building, agent, builds>>
    /\ UNCHANGED <<cvars, tvars, kvars>>

\* reasoning_layer.py lines 372-379, router.py lines 136-141, 163-165 and
\* 189-207: the language model answers or fails, analyze returns or raises,
\* and an endpoint that called it goes on: analyze-trends reads its second
\* file after the first
LLMReplies ==
    /\ response.tag = "pending"
    /\ LET second == request.op = "analyze-trends" /\ response.dicts = << >> IN
       \E llm \in LLMOutputs \cup {LLMRaises} :
       \E next_upload \in (IF second THEN Uploads ELSE {NoUpload}) :
         /\ request' = [request EXCEPT !.llm = llm,
                            !.uploads = IF second THEN Append(@, next_upload) ELSE @]
         /\ response' = IF request.op \in {"upload-report", "analyze-trends"}
                        THEN EndpointGoesOn(request.op, response, llm, next_upload,
                                            api_key, agent, vector_store, top_k)
                        ELSE Returned_(analyze_return(response, llm))
    /\ vector_store' = IF vector_store = None THEN None
                       ELSE <<IndexAfter(vector_store[1], response'.rag.searches)>>
    /\ UNCHANGED <<api_key, knowledge, build_error, startup_error, top_k, pc,
                   building, agent, builds>>
    /\ UNCHANGED <<cvars, tvars, kvars>>

\* rag_pipeline.py lines 153-185: agent.rag.retrieve_for_abnormal_params(parameters)
RetrieveForAbnormalParams ==
    /\ ServerStarted(pc)
    /\ response.tag = "none"
    /\ agent = "agent"
    /\ \E parameters \in QueryParamLists :
       \E fail_at \in 0..Len(Abnormal(parameters)) :
         /\ request' = [NoRequest EXCEPT !.op = "retrieve_for_abnormal_params",
                                         !.parameters = parameters,
                                         !.fail_at = fail_at]
         /\ response' = Retrieved(
                retrieve_for_abnormal_params(vector_store[1], parameters, fail_at))
         /\ vector_store' = <<IndexAfter(vector_store[1], response'.rag.searches)>>
    /\ UNCHANGED <<api_key, knowledge, build_error, startup_error, top_k, pc,
                   building, agent, builds>>
    /\ UNCHANGED <<cvars, tvars, kvars>>

\* rag_pipeline.py lines 135-151: agent.rag.retrieve(query)
Retrieve ==
    /\ ServerStarted(pc)
    /\ response.tag = "none"
    /\ agent = "agent"
    /\ \E query \in RetrieveQueries, fail_at \in 0..1 :
         /\ request' = [NoRequest EXCEPT !.op = "retrieve", !.query = query,
                                         !.fail_at = fail_at]
         /\ response' = Retrieved(retrieve(vector_store[1], top_k, query, fail_at))
         /\ vector_store' = <<IndexAfter(vector_store[1], response'.rag.searches)>>
    /\ UNCHANGED <<api_key, knowledge, build_error, startup_error, top_k, pc,
                   building, agent, builds>>
    /\ UNCHANGED <<cvars, tvars, kvars>>

\* the caller has the answer; the next call can come
Deliver ==
    /\ response.tag \in {"ok", "raised"}
    /\ request' = NoRequest
    /\ response' = NoResponse
    /\ UNCHANGED <<api_key, knowledge, build_error, startup_error, top_k, pc,
                   building, vector_store, agent, builds>>
    /\ UNCHANGED <<cvars, tvars, kvars>>

NextService ==
    \/ ReadKey
    \/ LoadText
    \/ AddChunk
    \/ BuildFails
    \/ AssignStore
    \/ BindAgent
    \/ RunPipeline
    \/ AnalyzeTrendsEndpoint
    \/ Analyze
    \/ LLMReplies
    \/ RetrieveForAbnormalParams
    \/ Retrieve
    \/ Deliver

SpecService == InitService /\ [][NextService]_vars

ServiceTypeOK == pc \in {"import", "load", "build", "llm", "serving", "crashed"}

-----------------------------------------------------------------------------
(* Properties of retrieval, the index and the service *)

Answered == response.tag \in {"ok", "raised"}

Searches == response.rag.searches

\* the calls that reach a retrieval entry point with a list of parameters
ByPipeline == request.op = "retrieve_for_abnormal_params"

ByAgent == request.op = "analyze" /\ response.retrieved

NoneAbnormal(parameters) ==
    \A i \in 1..Len(parameters) :
        "status" \in DOMAIN parameters[i] => parameters[i].status \notin {"High", "Low"}

\* C13: when no parameter has status High or Low, retrieval returns its fixed
\* sentence and makes no similarity_search call, through the pipeline's
\* retrieve_for_abnormal_params and through the agent's _retrieve_context.
C13_NoAbnormalNoSearch ==
    /\ (ByPipeline /\ NoneAbnormal(request.parameters))
          => /\ response.tag = "ok"
             /\ response.rag.context = AllNormalText
             /\ Searches = << >>
    /\ (ByAgent /\ NoneAbnormal(request.parameters))
          => /\ response.rag.tag = "ok"
             /\ response.rag.context = AllInRangeText
             /\ Searches = << >>

\* the agent retrieved for a report whose parameters are all in range
C13_Witness ==
    /\ ByAgent
    /\ request.parameters # << >>
    /\ NoneAbnormal(request.parameters)
    /\ response.rag.context = AllInRangeText
    /\ Searches = << >>

\* the documents of every search, in the order they were returned
RECURSIVE DocsReturned(_)
DocsReturned(searches) ==
    IF searches = << >> THEN << >>
    ELSE searches[1].docs \o DocsReturned(Tail(searches))

\* a sequence without its repetitions
RECURSIVE FirstOccurrences(_)
FirstOccurrences(seq) ==
    IF seq = << >> THEN << >>
    ELSE LET front == FirstOccurrences(SubSeq(seq, 1, Len(seq) - 1))
             last  == seq[Len(seq)]
         IN  IF last \in Range(front) THEN front ELSE Append(front, last)

\* C14: with an abnormal parameter, the context holds each distinct chunk text
\* once, the chunks joined in the order the queries first returned them.
C14_EachChunkOnceInFirstSeenOrder ==
    ((ByPipeline \/ ByAgent) /\ response.rag.tag = "ok"
        /\ ~NoneAbnormal(request.parameters))
      => /\ response.rag.contexts = FirstOccurrences(DocsReturned(Searches))
         /\ response.rag.context = Join(ParagraphBreak, response.rag.contexts)

\* the pipeline's entry point alone
C14_PipelineEachChunkOnce ==
    (ByPipeline /\ response.rag.tag = "ok" /\ ~NoneAbnormal(request.parameters))
      => /\ response.rag.contexts = FirstOccurrences(DocsReturned(Searches))
         /\ response.rag.context = Join(ParagraphBreak, response.rag.contexts)

Embedded ==
    (IF pc = "build" THEN {building[i].page_content : i \in 1..Len(building)} ELSE {})
    \cup {Searches[n].query : n \in 1..Len(Searches)}

LowerCode(c) ==
    IF c \in 65..90 \/ c \in 192..214 \/ c \in 216..222 THEN c + 32 ELSE c

\* C16: the embedding of a non-empty text has 128 components that sum to 1,
\* component i being the share of the characters c of the lower-cased text
\* with ord(c) mod 128 = i; the empty text gives the zero vector; embed_query
\* and embed_documents give the same vector.
C16_EmbeddingIsCharacterShares ==
    \A text \in Embedded :
        LET v        == _embed(text)
            slot     == [j \in 1..Len(text) |-> LowerCode(text[j]) % 128]
            count(i) == Cardinality({j \in 1..Len(text) : slot[j] = i})
        IN  /\ DOMAIN v = 0..127
            /\ text # << >> =>
                  /\ \A i \in 0..127 : v[i] = <<count(i), Len(text)>>
                  /\ SumVec([i \in 0..127 |-> v[i][1]], 0, 127) = v[0][2]
            /\ text = << >> => \A i \in 0..127 : v[i][1] = 0 /\ v[i][2] # 0
            /\ embed_query(text) = embed_documents(<<text>>)[1]

\* the empty query was embedded and searched for
C16_Witness ==
    /\ response.tag = "ok"
    /\ request.op = "retrieve"
    /\ request.query = << >>
    /\ Len(Searches) = 1

Chunks == IF knowledge = None THEN << >> ELSE knowledge[1]

\* the index that holds every chunk of the knowledge file
WholeIndex ==
    [i \in 1..Len(Chunks) |-> [page_content |-> Chunks[i], vector |-> _embed(Chunks[i])]]

\* C17: no call is answered and no search is made before the import has
\* built the whole index or failed: a store that can be reached holds every
\* chunk.
C17_NoSearchOnPartialIndex ==
    /\ response.tag # "none" => pc = "serving"
    /\ agent # "unbound" => pc = "serving"
    /\ agent = "agent" => vector_store # None
    /\ vector_store # None => Len(vector_store[1]) = Len(Chunks)
    /\ \A n \in 1..Len(Searches) : Searches[n].size = Len(Chunks)

\* a search ran on an index of two chunks
C17_Witness ==
    /\ pc = "serving"
    /\ Len(Chunks) = 2
    /\ Len(Searches) >= 1
    /\ Searches[1].size = 2

\* C18 as stated: once the service is up the index has been built exactly
\* once, and the store is the index built from the knowledge file.
C18_BuiltExactlyOnce ==
    /\ pc = "serving" => builds = 1
    /\ vector_store # None => vector_store[1] = WholeIndex

\* C18 amended: the index is built at most once, exactly once when the agent
\* was constructed and never when its construction raised, and from then on
\* the store is the index built from the knowledge file, whatever was called.
C18_BuiltAtMostOnceAndFrozen ==
    /\ builds <= 1
    /\ (pc = "serving" /\ agent = "agent") => builds = 1
    /\ (pc = "serving" /\ agent = "None") => builds = 0
    /\ builds = 1 <=> vector_store # None
    /\ vector_store # None => vector_store[1] = WholeIndex

\* a call that searched has been answered and the index is as it was built
C18_Witness ==
    /\ Answered
    /\ Len(Searches) >= 1
    /\ builds = 1
    /\ vector_store[1] = WholeIndex

CannotBuild ==
    \/ knowledge = None
    \/ Chunks = << >>
    \/ build_error # ""

\* C19: when the knowledge file cannot be read or the index cannot be built,
\* the constructors raise, no agent and no store ever exist, and no call is
\* answered with a retrieval or an analysis.
C19_FailsLoudly ==
    CannotBuild =>
        /\ pc \in {"serving", "crashed"} => startup_error # ""
        /\ agent # "agent"
        /\ vector_store = None
        /\ ~response.retrieved
        /\ response.tag # "ok"
        /\ response.status_code # 200

\* the import ended with the FileNotFoundError of the missing file
C19_Witness ==
    /\ knowledge = None
    /\ pc = "crashed"
    /\ startup_error = "FileNotFoundError"
    /\ agent = "unbound"

Direct == request.op \in {"analyze", "retrieve", "retrieve_for_abnormal_params"}

\* C20: a failure of similarity_search or of the language model reaches the
\* caller of retrieve and analyze as it was raised, the failed call was made
\* once, and no call of the model follows a failed retrieval.
C20_NoRetryNoSwallow ==
    (Direct /\ Answered) =>
        /\ response.llm_calls <= 1
        /\ \A n \in 1..Len(Searches) : Searches[n].raised => n = Len(Searches)
        /\ request.fail_at > 0 =>
              /\ Len(Searches) = request.fail_at
              /\ Searches[Len(Searches)].raised
              /\ response.tag = "raised"
              /\ response.error = "EmbeddingError"
              /\ response.llm_calls = 0
        /\ request.llm.kind = "raise" =>
              /\ response.tag = "raised"
              /\ response.error = "LLMError"
              /\ response.llm_calls = 1

\* analyze raised the failure of its search without calling the model
C20_Witness ==
    /\ request.op = "analyze"
    /\ request.fail_at = 1
    /\ response.tag = "raised"
    /\ response.error = "EmbeddingError"
    /\ response.llm_calls = 0

-----------------------------------------------------------------------------
(* rag_pipeline.py: chunking.  RAGPipeline(knowledge_file, chunk_size,      *)
(* chunk_overlap, top_k) reads the file and hands its text to the splitter; *)
(* a pipeline is what it was constructed with and the chunks of its index.  *)

MaxTextLen == 3

MaxPipelines == 2

\* a letter, a space, a full stop and a line break
TextChars == {97, 32, 46, 10}

KnowledgeTexts == UNION { [1..n -> TextChars] : n \in 0..MaxTextLen }

ChunkSizes == {2, 3}

ChunkOverlaps == {0, 1}

\* the positions of a window after which a separator of the most preferred
\* layer found in it ends: paragraph break, line break, full stop, space
Breaks(window) ==
    LET paragraph == {i \in 2..Len(window) : window[i - 1] = 10 /\ window[i] = 10}
        line      == {i \in 1..Len(window) : window[i] = 10}
        sentence  == {i \in 1..Len(window) : window[i] = 46}
        space     == {i \in 1..Len(window) : window[i] = Space}
    IN  IF paragraph # {} THEN paragraph
        ELSE IF line # {} THEN line
        ELSE IF sentence # {} THEN sentence
        ELSE space

\* the splitter: greedily, a chunk of at most size characters that ends at
\* the last break of the most preferred layer, the next chunk starting
\* overlap characters before that end
RECURSIVE split_text(_, _, _)
split_text(text, size, overlap) ==
    IF text = << >> THEN << >>
    ELSE IF Len(text) <= size THEN <<text>>
    ELSE LET window == SubSeq(text, 1, size)
             end    == IF Breaks(window) = {} THEN size
                       ELSE CHOOSE i \in Breaks(window) : \A j \in Breaks(window) : j <= i
             from   == IF end - overlap >= 1 THEN end - overlap + 1 ELSE end + 1
         IN  <<SubSeq(text, 1, end)>>
                 \o split_text(SubSeq(text, from, Len(text)), size, overlap)

BuildIndexSizeDrifts(text, size, overlap) ==
    split_text(text, size + Len(pipelines), overlap)

\* rag_pipeline.py lines 117-130: the chunks of the index, in the order the
\* splitter gave them: the text read, chunk_size and chunk_overlap as they
\* were passed, the separators fixed
_build_index(text, size, overlap) == split_text(text, size, overlap)

InitChunking ==
    /\ report = << >>
    /\ heap = << >>
    /\ classified = NotCalled
    /\ reclassified = NotCalled
    /\ NoTrends
    /\ NoService
    /\ raw_text \in KnowledgeTexts
    /\ chunk_size \in ChunkSizes
    /\ chunk_overlap \in ChunkOverlaps
    /\ pipelines = << >>

\* rag_pipeline.py lines 82-108: RAGPipeline(knowledge_file, chunk_size,
\* chunk_overlap, top_k)
ConstructPipeline ==
    /\ Len(pipelines) < MaxPipelines
    /\ \E k \in TopKs :
         pipelines' = Append(pipelines,
             [top_k |-> k, chunks |-> _build_index(raw_text, chunk_size, chunk_overlap)])
    /\ UNCHANGED <<raw_text, chunk_size, chunk_overlap>>
    /\ UNCHANGED <<cvars, tvars, rvars>>

NextChunking == ConstructPipeline

SpecChunking == InitChunking /\ [][NextChunking]_vars

-----------------------------------------------------------------------------
(* Properties of the trend entries' percentage and direction *)

\* C29: in every trend entry whose percentage_change is not null,
\* percentage_change > 0 exactly when direction is Increased and
\* percentage_change < 0 exactly when direction is Decreased.
C29_PercentSignAgreesWithDirection ==
    \A i \in 1..Len(Trends) :
        LET e == Trends[i] IN
        e.percentage_change # None =>
            /\ (e.percentage_change[1] > 0) <=> (e.direction = "Increased")
            /\ (e.percentage_change[1] < 0) <=> (e.direction = "Decreased")

\* the older value is below zero and the newer one above it: the entry rose
\* and its percentage is negative
C29_NegativeBaseline ==
    /\ Returned
    /\ Len(Trends) = 1
    /\ Trends[1].older_value < 0
    /\ Trends[1].direction = "Increased"
    /\ Trends[1].percentage_change # None
    /\ Trends[1].percentage_change[1] < 0

-----------------------------------------------------------------------------
(* Properties of analyze, the upload pipeline and the endpoints *)

\* the language model gave analyze an answer
ModelAnswered == request.llm.kind \in {"object", "array", "text"}

\* C22: whatever the report and the raw output of the language model, analyze
\* returns a dict with summary, preventive_guidance and doctor_questions whose
\* doctor_questions is a list of exactly 3 questions.
C22_ExactlyThreeQuestions ==
    (request.op = "analyze" /\ Answered /\ ModelAnswered) =>
        /\ response.tag = "ok"
        /\ DOMAIN response.result = {"summary", "preventive_guidance", "doctor_questions"}
        /\ Len(response.result.doctor_questions) = KeptQuestions

\* the model's JSON object listed one question and analyze returned that one
C22_OneQuestionReturned ==
    /\ request.op = "analyze"
    /\ response.tag = "ok"
    /\ request.llm.kind = "object"
    /\ Len(request.llm.doctor_questions) = 1
    /\ Len(response.result.doctor_questions) = 1

\* C27: every similarity query of retrieve, of retrieve_for_abnormal_params
\* and of the reasoning agent asks the index for exactly top_k chunks.
C27_EverySearchAsksTopK ==
    \A n \in 1..Len(Searches) : Searches[n].k = top_k

\* retrieve and the agent's _retrieve_context alone
C27_RetrieveAndAgentAskTopK ==
    (request.op \in {"retrieve", "analyze", "upload-report"}) =>
        \A n \in 1..Len(Searches) : Searches[n].k = top_k

\* retrieve_for_abnormal_params asked for 2 chunks of a pipeline whose top_k is 5
C27_TwoRequestedOfFive ==
    /\ ByPipeline
    /\ top_k = DefaultTopK
    /\ Len(Searches) >= 1
    /\ Searches[1].k = AbnormalK

\* a direct call of analyze on a report with at least one parameter
AnalyzeWithParameters == request.op = "analyze" /\ request.parameters # << >>

\* C26 as stated: every call of analyze on a report with at least one
\* parameter invokes the language model exactly once.
C26_ModelInvokedExactlyOnce ==
    (AnalyzeWithParameters /\ Answered) => response.llm_calls = 1

\* C26 amended: a call of analyze on a report with at least one parameter
\* invokes the language model at most once; exactly once when retrieval and
\* the prompt succeed, after retrieval has returned and before anything is
\* parsed, with no second call when the answer is no JSON; never when
\* retrieval or the prompt raises.
C26_ModelInvokedOnceAfterRetrieval ==
    AnalyzeWithParameters =>
        /\ response.llm_calls <= 1
        /\ response.tag = "pending" =>
              /\ response.llm_calls = 1
              /\ response.retrieved
              /\ response.rag.tag = "ok"
              /\ \A n \in 1..Len(Searches) : ~Searches[n].raised
              /\ response.result = NoResult
        /\ Answered =>
              /\ response.llm_calls = 1 <=> request.llm.kind # "unused"
              /\ response.llm_calls = 0 <=>
                    (response.rag.tag = "raised" \/ _build_prompt(request.parameters) # "")
              /\ request.llm.kind = "text" =>
                    /\ response.tag = "ok"
                    /\ response.result = FallbackParsed

\* the model's answer was no JSON: analyze returned the fallback after one call
C26_Witness ==
    /\ AnalyzeWithParameters
    /\ response.tag = "ok"
    /\ request.llm.kind = "text"
    /\ response.llm_calls = 1
    /\ Len(Searches) = 1
    /\ response.result.doctor_questions = FallbackParsed.doctor_questions

\* a direct call of analyze on a report whose parameters are missing or empty
AnalyzeWithoutParameters == request.op = "analyze" /\ request.parameters = << >>

\* C28: on a report without parameters (the key missing or the list empty)
\* analyze returns its fixed 'no lab parameters' response with exactly 3
\* doctor questions, and makes no index query and no call of the language
\* model.
C28_NoParametersFixedResponse ==
    AnalyzeWithoutParameters =>
        /\ response.tag = "ok"
        /\ response.result = NoParametersResult
        /\ response.result.summary = "No lab parameters were found in this report."
        /\ Len(response.result.doctor_questions) = 3
        /\ Searches = << >>
        /\ ~response.retrieved
        /\ response.llm_calls = 0
        /\ request.llm = LLMUnused

\* analyze answered a report that has no key "parameters"
C28_Witness ==
    /\ AnalyzeWithoutParameters
    /\ ~request.listed
    /\ response.tag = "ok"
    /\ response.result = NoParametersResult
    /\ response.llm_calls = 0

\* the calls that go through _run_pipeline
ByEndpoint == request.op \in {"upload-report", "analyze-trends"}

\* the stages the log holds for a file, in the order of the log
StagesOf(file) ==
    LET mine == SelectSeq(response.stages, LAMBDA entry : entry[1] = file)
    IN  [i \in 1..Len(mine) |-> mine[i][2]]

\* the file _run_pipeline worked on last
FileNow == response.stages[Len(response.stages)][1]

Upload == request.uploads[Len(request.uploads)]

\* the stage at which _run_pipeline fails on an upload, 8 when none fails
FailingStage(upload) ==
    IF ~upload.accepted THEN 1
    ELSE IF upload.size = 0 \/ upload.size > MAX_FILE_SIZE_BYTES THEN 3
    ELSE IF upload.text # "" THEN 4
    ELSE IF upload.extraction # "" \/ KeyStripped(api_key) = "" THEN 5
    ELSE IF agent = "None" THEN 6
    ELSE IF response.tag = "raised" THEN 7
    ELSE 8

\* C25: _run_pipeline runs its stages in the order validate, read, checks,
\* text extraction, parameter extraction, classification, reasoning; no stage
\* runs after one that failed; the report the agent is handed has the
\* statuses classify_report_statuses computed, never those of the extraction
\* model.
C25_StagesInOrderClassifiedReport ==
    (ByEndpoint /\ response.tag # "none") =>
        /\ \E n \in 1..Len(StageNames) :
              /\ StagesOf(FileNow) = SubSeq(StageNames, 1, n)
              /\ FailingStage(Upload) <= Len(StageNames) =>
                    /\ response.tag = "raised"
                    /\ n = FailingStage(Upload)
              /\ response.received # None <=> n = Len(StageNames)
        /\ response.received # None =>
              LET handed == response.received[1].parameters IN
              /\ Len(handed) = Len(Upload.parameters)
              /\ \A i \in 1..Len(handed) :
                    /\ [handed[i] EXCEPT !.status = "?"]
                          = [Upload.parameters[i] EXCEPT !.status = "?"]
                    /\ handed[i].status =
                          Status(handed[i].value, handed[i].reference_low,
                                 handed[i].reference_high)

\* the extraction model called a value below its range Normal; the agent was
\* handed it as Low
C25_Witness ==
    /\ request.op = "upload-report"
    /\ Len(Upload.parameters) = 1
    /\ Upload.parameters[1].status = "Normal"
    /\ StagesOf("file") = StageNames
    /\ response.received # None
    /\ response.received[1].parameters[1].status = "Low"

\* an empty file whose text could not be extracted either: 400, and no
\* extraction ran
C25_WitnessStopsAtFirstFailure ==
    /\ request.op = "upload-report"
    /\ Upload.size = 0
    /\ Upload.text = "ValueError"
    /\ response.status_code = 400
    /\ StagesOf("file") = <<"validate", "read", "checks">>

\* an accepted, non-empty upload of at most 10 MB whose text and parameters
\* are extracted
GoodUpload ==
    /\ Upload.accepted
    /\ Upload.size \in 1..MAX_FILE_SIZE_BYTES
    /\ Upload.text = ""
    /\ Upload.extraction = ""
    /\ KeyStripped(api_key) # ""

\* C23: for an accepted, non-empty upload of at most 10 MB whose text and
\* parameters are extracted, with the agent initialised and the language
\* model answering valid JSON, upload-report succeeds and returns
\* patient_name, report_date and parameters together with the insights
\* AnalysisResponse requires.
C23_GoodUploadSucceeds ==
    (request.op = "upload-report" /\ Answered /\ GoodUpload /\ agent = "agent"
        /\ request.llm.kind \in {"unused", "object"}) =>
        /\ response.tag = "ok"
        /\ response.status_code = 200
        /\ AnalysisResponseFields \subseteq response.body

\* such an upload was answered 502: the call of analyze raised TypeError
\* before the language model was asked
C23_GoodUploadAnswered502 ==
    /\ request.op = "upload-report"
    /\ GoodUpload
    /\ agent = "agent"
    /\ Upload.parameters # << >>
    /\ response.tag = "raised"
    /\ response.status_code = 502
    /\ response.llm_calls = 0
    /\ request.llm = LLMUnused

\* C24: with GROQ_API_KEY unset or blank the constructor of the agent raises
\* RuntimeError before the index is built and before the model client is
\* created; the router goes on with no agent; a pipeline request that gets
\* to the reasoning step without an agent is answered 503, and no retrieval
\* or reasoning call is made.
C24_NoKeyNoAgentAnswers503 ==
    /\ api_key \in {"", " "} =>
          /\ pc \in {"import", "serving"}
          /\ pc = "serving" => (startup_error = "RuntimeError" /\ agent = "None")
          /\ builds = 0
          /\ building = << >>
          /\ vector_store = None
          /\ ~response.retrieved
          /\ response.llm_calls = 0
          /\ Searches = << >>
          /\ response.status_code # 200
    /\ (agent = "None" /\ ByEndpoint /\ response.tag # "none"
          /\ "classify" \in Range(StagesOf(FileNow))) =>
          /\ response.tag = "raised"
          /\ response.status_code = 503
          /\ "reasoning" \notin Range(StagesOf(FileNow))
          /\ response.received = None
          /\ ~response.retrieved
          /\ response.llm_calls = 0
          /\ Searches = << >>

\* the key was blank, the router serves without an agent and answered an
\* upload 503
C24_Witness ==
    /\ api_key = " "
    /\ pc = "serving"
    /\ startup_error = "RuntimeError"
    /\ agent = "None"
    /\ builds = 0
    /\ request.op = "upload-report"
    /\ response.status_code = 503

\* an upload got to the reasoning step of a router without an agent
C24_WitnessReasoningStep ==
    /\ agent = "None"
    /\ request.op = "upload-report"
    /\ StagesOf("file") = SubSeq(StageNames, 1, 6)
    /\ response.status_code = 503

\* C30: analyze-trends runs _run_pipeline on the older file to its end before
\* it starts on the newer one; when the older file's pipeline fails the newer
\* file is never processed; trends and graph are computed only after both
\* pipelines returned, with the older report as the baseline of
\* analyze_trends.
C30_OlderToItsEndThenNewer ==
    (request.op = "analyze-trends" /\ response.tag # "none") =>
        LET log == response.stages IN
        /\ log[1][1] = "older"
        /\ \A i, j \in 1..Len(log) :
              (i < j /\ log[j][1] = "older") => log[i][1] = "older"
        /\ StagesOf("newer") # << >> =>
              /\ StagesOf("older") = StageNames
              /\ Len(response.dicts) >= 1
        /\ (response.tag = "raised" /\ FileNow = "older") =>
              /\ StagesOf("newer") = << >>
              /\ Len(request.uploads) = 1
        /\ StagesOf("both") # << >> <=> response.trend # None
        /\ response.trend # None =>
              /\ Len(response.dicts) = 2
              /\ StagesOf("older") = StageNames
              /\ StagesOf("newer") = StageNames
              /\ SubSeq(log, Len(log) - 1, Len(log))
                    = <<<<"both", "trends">>, <<"both", "graph">>>>
              /\ response.trend[1] = analyze_trends(ReportDict(response.dicts[1]),
                                                    ReportDict(response.dicts[2]))

\* the older file's pipeline failed at its last stage; nothing of the newer
\* file was read and no trend was computed
C30_Witness ==
    /\ request.op = "analyze-trends"
    /\ response.tag = "raised"
    /\ StagesOf("older") = StageNames
    /\ StagesOf("newer") = << >>
    /\ Len(request.uploads) = 1
    /\ response.trend = None

====
